---- MODULE Spec2Model ----
(***************************************************************************)
(* Session browser of Tules (Tules-sessions.py) and of its predecessor     *)
(* claude-sessions.py: the read-key / mutate-state / redraw loop of         *)
(* interactive_session_browser, the key decoder get_key, the pager          *)
(* paginate_content and the resume/fork hand-off resume_session.            *)
(*                                                                         *)
(* Text is a sequence of atoms: the atom "\n" is a line break, every other *)
(* atom stands for a run of characters that holds no line break.           *)
(* Standard input is a FIFO of bytes.  The program never polls it, so a    *)
(* byte is let in only while a read is waiting for one; a read on an empty *)
(* FIFO blocks, and returns the empty string once the input has hung up.   *)
(***************************************************************************)
EXTENDS Integers, Sequences, FiniteSets, TLC

\* ------------------------------------------------------------------ bounds
MaxSessions == 3
\* The pager on its own: longest text (in atoms), largest requested offset,
\* largest page height (heights run from -MaxHeight to MaxHeight).
MaxLen == 4
MaxOffset == 5
MaxHeight == 3
\* The renderer on its own: longest text, in tokens (a token is one
\* character or one triple backtick).
MaxTokens == 6

\* ------------------------------------------------------- program constants
ReservedLines == 8
FallbackHeight == 40

\* Heights the terminal may report; FallbackHeight is what
\* get_terminal_height returns when the size cannot be determined.
TermHeights == {6, 18}

None == "<none>"
\* A local integer that has not been assigned yet.
Unset == 0 - 1
ESC == "ESC"
NL == "\n"
EOFRead == ""

\* Bytes the keyboard can deliver: the escape byte, the bytes of the CSI
\* sequences, the line terminators, the command characters and one
\* character ("x") that no handler knows.
Bytes == {ESC, "[", "A", "B", "5", "6", "~", "\r", "\n",
          "q", "v", "l", "b", "n", "p", "r", "f", "x"}

Max(a, b) == IF a >= b THEN a ELSE b
Min(a, b) == IF a <= b THEN a ELSE b

\* ------------------------------------------------------------ Python text
\* str.split('\n'): the pieces between line breaks; n breaks give n+1 pieces.
RECURSIVE split(_)
split(s) ==
    IF \A i \in 1..Len(s) : s[i] # NL
    THEN <<s>>
    ELSE LET i == CHOOSE j \in 1..Len(s) :
                     s[j] = NL /\ \A k \in 1..(j-1) : s[k] # NL
         IN <<SubSeq(s, 1, i-1)>> \o split(SubSeq(s, i+1, Len(s)))

\* '\n'.join(lines)
RECURSIVE join(_)
join(lines) ==
    IF Len(lines) = 0 THEN <<>>
    ELSE IF Len(lines) = 1 THEN lines[1]
    ELSE lines[1] \o <<NL>> \o join(Tail(lines))

\* Python's slice index normalisation: a negative index counts from the end,
\* and the result is cut to [0, len].
SliceIndex(i, len) == IF i < 0 THEN Max(0, i + len) ELSE Min(i, len)

\* seq[a:b]
PySlice(seq, a, b) ==
    LET lo == SliceIndex(a, Len(seq))
        hi == SliceIndex(b, Len(seq))
    IN  IF lo < hi THEN SubSeq(seq, lo + 1, hi) ELSE <<>>

\* ------------------------------------------------------------------ pager
\* Variant: the offset is floored at 0 but not cut to max_offset.
paginate_content_unclamped(content, scroll_offset_in, page_height_in) ==
    LET lines == split(content)
        total_lines == Len(lines)
        clamped == Max(0, scroll_offset_in)
        visible_lines == PySlice(lines, clamped, clamped + page_height_in)
    IN  [visible_content |-> join(visible_lines),
         total_lines |-> total_lines,
         scroll_offset |-> clamped]

\* Variant: the third component is max_offset, as the docstring words it.
paginate_content_returns_max(content, scroll_offset_in, page_height_in) ==
    LET lines == split(content)
        total_lines == Len(lines)
        max_offset == Max(0, total_lines - page_height_in)
        clamped == Max(0, Min(scroll_offset_in, max_offset))
        visible_lines == PySlice(lines, clamped, clamped + page_height_in)
    IN  [visible_content |-> join(visible_lines),
         total_lines |-> total_lines,
         scroll_offset |-> max_offset]

\* Variant: max_offset is one too large.
paginate_content_past_end(content, scroll_offset_in, page_height_in) ==
    LET lines == split(content)
        total_lines == Len(lines)
        max_offset == Max(0, total_lines - page_height_in + 1)
        clamped == Max(0, Min(scroll_offset_in, max_offset))
        visible_lines == PySlice(lines, clamped, clamped + page_height_in)
    IN  [visible_content |-> join(visible_lines),
         total_lines |-> total_lines,
         scroll_offset |-> clamped]

\* Variant: a final line break does not start another line.
paginate_content_splitlines(content, scroll_offset_in, page_height_in) ==
    LET pieces == split(content)
        lines == IF pieces[Len(pieces)] = <<>>
                 THEN SubSeq(pieces, 1, Len(pieces) - 1) ELSE pieces
        total_lines == Len(lines)
        max_offset == Max(0, total_lines - page_height_in)
        clamped == Max(0, Min(scroll_offset_in, max_offset))
        visible_lines == PySlice(lines, clamped, clamped + page_height_in)
    IN  [visible_content |-> join(visible_lines),
         total_lines |-> total_lines,
         scroll_offset |-> clamped]

\* Variant: the offset may reach the line count.
paginate_content_offset_to_end(content, scroll_offset_in, page_height_in) ==
    LET lines == split(content)
        total_lines == Len(lines)
        max_offset == total_lines
        clamped == Max(0, Min(scroll_offset_in, max_offset))
        visible_lines == PySlice(lines, clamped, clamped + page_height_in)
    IN  [visible_content |-> join(visible_lines),
         total_lines |-> total_lines,
         scroll_offset |-> clamped]

paginate_content(content, scroll_offset_in, page_height_in) ==
    LET lines == split(content)
        total_lines == Len(lines)
        max_offset == Max(0, total_lines - page_height_in)
        clamped == Max(0, Min(scroll_offset_in, max_offset))
        visible_lines == PySlice(lines, clamped, clamped + page_height_in)
    IN  [visible_content |-> join(visible_lines),
         total_lines |-> total_lines,
         scroll_offset |-> clamped]


\* ------------------------------------------------- tui_renderer: splitter
\* A text is a sequence of characters.  Positions are 1-based; a match's
\* `end` is the position after its last character (Python's span is
\* (start - 1, end - 1)).
\* The backtick character (an atom of the text).
Backtick == "backtick"
Fence == <<Backtick, Backtick, Backtick>>
\* The characters of the model that \w and \s match.
WordChars == {"a"}
SpaceChars == {" ", NL}

MinOf(S) == CHOOSE x \in S : \A y \in S : x <= y
MaxOf(S) == CHOOSE x \in S : \A y \in S : x >= y

\* text[a-1:b], both ends within the text.
Slice(t, a, b) == [k \in 1..(b - a + 1) |-> t[a + k - 1]]

IsFenceAt(t, i) ==
    /\ i >= 1 /\ i + 2 <= Len(t)
    /\ t[i] = Backtick /\ t[i + 1] = Backtick /\ t[i + 2] = Backtick

\* The position after the longest run of characters of class C from j on.
RunEnd(t, j, C) ==
    LET stops == {k \in j..Len(t) : t[k] \notin C}
    IN  IF stops = {} THEN Len(t) + 1 ELSE MinOf(stops)

NoMatch == [start |-> 0, end |-> 0, language |-> <<>>, body |-> <<>>]

\* Variant: a fence that is never closed runs to the end of the text.
fence_match_unterminated(t, i) ==
    IF ~IsFenceAt(t, i) THEN NoMatch
    ELSE LET e == RunEnd(t, i + 3, WordChars)
             r == RunEnd(t, e, SpaceChars)
             breaks == {w \in e..(r - 1) : t[w] = NL}
         IN  IF breaks = {} THEN NoMatch
             ELSE LET b == MaxOf(breaks) + 1
                      closers == {m \in b..Len(t) : IsFenceAt(t, m)}
                      m == IF closers = {} THEN Len(t) + 1 ELSE MinOf(closers)
                  IN  [start |-> i,
                       end |-> Min(m + 3, Len(t) + 1),
                       language |-> Slice(t, i + 3, e - 1),
                       body |-> Slice(t, b, m - 1)]

\* Variant: the opening backticks must begin a line.
fence_match_line_start(t, i) ==
    IF ~IsFenceAt(t, i) \/ (i > 1 /\ t[i - 1] # NL) THEN NoMatch
    ELSE LET e == RunEnd(t, i + 3, WordChars)
             r == RunEnd(t, e, SpaceChars)
             breaks == {w \in e..(r - 1) : t[w] = NL}
         IN  IF breaks = {} THEN NoMatch
             ELSE LET b == MaxOf(breaks) + 1
                      closers == {m \in b..Len(t) : IsFenceAt(t, m)}
                  IN  IF closers = {} THEN NoMatch
                      ELSE LET m == MinOf(closers)
                           IN  [start |-> i,
                                end |-> m + 3,
                                language |-> Slice(t, i + 3, e - 1),
                                body |-> Slice(t, b, m - 1)]

\* FENCE_PATTERN, r"```(\w+)?\s*\n(.*?)```" with DOTALL, tried at position i.
\* (\w+)? can only succeed with the whole run of word characters (a shorter
\* tag is followed by a word character, which \s*\n rejects) or with none;
\* \s* is greedy and matches line breaks too, so it gives back characters
\* until it stands before the LAST line break of the whitespace run; (.*?)
\* is lazy and ends at the first triple backtick from there on.  language
\* is group(1), <<>> standing for None; body is group(2).
fence_match(t, i) ==
    IF ~IsFenceAt(t, i) THEN NoMatch
    ELSE LET e == RunEnd(t, i + 3, WordChars)
             r == RunEnd(t, e, SpaceChars)
             breaks == {w \in e..(r - 1) : t[w] = NL}
         IN  IF breaks = {} THEN NoMatch
             ELSE LET b == MaxOf(breaks) + 1
                      closers == {m \in b..Len(t) : IsFenceAt(t, m)}
                  IN  IF closers = {} THEN NoMatch
                      ELSE LET m == MinOf(closers)
                           IN  [start |-> i,
                                end |-> m + 3,
                                language |-> Slice(t, i + 3, e - 1),
                                body |-> Slice(t, b, m - 1)]

\* FENCE_PATTERN.finditer(text): leftmost matches, one after the other.
RECURSIVE finditer(_, _)
finditer(t, pos) ==
    LET starts == {i \in pos..Len(t) : fence_match(t, i).start # 0}
    IN  IF starts = {} THEN <<>>
        ELSE LET m == fence_match(t, MinOf(starts))
             IN  <<m>> \o finditer(t, m.end)

\* Variant: whitespace-only text is kept.
strip_is_empty_never(s) == FALSE

\* `not s.strip()`
strip_is_empty(s) == \A k \in 1..Len(s) : s[k] \in SpaceChars

\* Variant: one trailing line break is removed, no more.
rstrip_one_newline(s) ==
    IF s # <<>> /\ s[Len(s)] = NL THEN SubSeq(s, 1, Len(s) - 1) ELSE s

\* s.rstrip("\n")
RECURSIVE rstrip_newlines(_)
rstrip_newlines(s) ==
    IF s # <<>> /\ s[Len(s)] = NL
    THEN rstrip_newlines(SubSeq(s, 1, Len(s) - 1))
    ELSE s

TextBlock(markdown) == [kind |-> "TextBlock", markdown |-> markdown]
CodeBlock(language, code) ==
    [kind |-> "CodeBlock", language |-> language, code |-> code]

\* Variant: a fence with nothing in it gives no CodeBlock.
RECURSIVE blocks_from_skips_empty_code(_, _, _, _)
blocks_from_skips_empty_code(text, matches, k, last_end) ==
    IF k > Len(matches)
    THEN LET tail == Slice(text, last_end, Len(text))
         IN  IF last_end <= Len(text) /\ ~strip_is_empty(tail)
             THEN <<TextBlock(tail)>>
             ELSE <<>>
    ELSE LET match == matches[k]
             before == Slice(text, last_end, match.start - 1)
         IN  (IF match.start > last_end /\ ~strip_is_empty(before)
              THEN <<TextBlock(before)>>
              ELSE <<>>)
             \o (IF rstrip_newlines(match.body) = <<>> THEN <<>>
                 ELSE <<CodeBlock(match.language, rstrip_newlines(match.body))>>)
             \o blocks_from_skips_empty_code(text, matches, k + 1, match.end)

\* The for loop over the matches from the k-th on, then the trailing text;
\* last_end is the position of the first character not yet emitted.
RECURSIVE blocks_from(_, _, _, _)
blocks_from(text, matches, k, last_end) ==
    IF k > Len(matches)
    THEN LET tail == Slice(text, last_end, Len(text))
         IN  IF last_end <= Len(text) /\ ~strip_is_empty(tail)
             THEN <<TextBlock(tail)>>
             ELSE <<>>
    ELSE LET match == matches[k]
             before == Slice(text, last_end, match.start - 1)
         IN  (IF match.start > last_end /\ ~strip_is_empty(before)
              THEN <<TextBlock(before)>>
              ELSE <<>>)
             \o <<CodeBlock(match.language, rstrip_newlines(match.body))>>
             \o blocks_from(text, matches, k + 1, match.end)

split_markdown_and_code(text) == blocks_from(text, finditer(text, 1), 1, 1)

\* ---------------------------------------- tui_renderer: normalize_markdown
\* md.splitlines(), for texts whose only line boundary is "\n": a final line
\* break does not start another line.
splitlines(md) ==
    LET lines == split(md)
    IN  IF lines[Len(lines)] = <<>> THEN SubSeq(lines, 1, Len(lines) - 1)
        ELSE lines

NoHeading == [matched |-> FALSE, text |-> <<>>]

\* Variant: the whitespace after the '#' run is optional.
heading_match_no_space(line) ==
    LET h == RunEnd(line, 1, {"#"})
        w == RunEnd(line, h, SpaceChars)
    IN  IF h > 1
        THEN [matched |-> TRUE, text |-> Slice(line, w, Len(line))]
        ELSE NoHeading

\* HEADING_LINE.match(line), r"^(#+)\s+(.*)": the '#' run, the whole
\* whitespace run after it (at least one character), the rest as group(2).
heading_match(line) ==
    LET h == RunEnd(line, 1, {"#"})
        w == RunEnd(line, h, SpaceChars)
    IN  IF h > 1 /\ w > h
        THEN [matched |-> TRUE, text |-> Slice(line, w, Len(line))]
        ELSE NoHeading

Bold(text) == <<"*", "*">> \o text \o <<"*", "*">>

normalize_line(line) ==
    LET m == heading_match(line)
    IN  IF m.matched THEN Bold(m.text) ELSE line

normalize_markdown(md) ==
    LET lines == splitlines(md)
    IN  IF lines = <<>> THEN <<>>
        ELSE join([k \in 1..Len(lines) |-> normalize_line(lines[k])])


\* --------------------------------------------------------------- sessions
\* A session record as the browser uses it: its id and, for every message
\* with text, the number of lines of that text.
MessagesOf(i) == IF i = 1 THEN <<5, 5>> ELSE IF i = 2 THEN <<>> ELSE <<1>>

SessionAt(i) == [id |-> i, messages |-> MessagesOf(i)]

RECURSIVE TextOfLines(_)
TextOfLines(k) == IF k <= 1 THEN <<"text">> ELSE <<"text", NL>> \o TextOfLines(k - 1)

\* One entry of `conversation`: "Message i - ROLE:\n{truncated}\n"
ConversationEntry(k) == <<"Message", NL>> \o TextOfLines(k) \o <<NL>>

RECURSIVE Conversation(_)
Conversation(msgs) ==
    IF Len(msgs) = 0 THEN <<>>
    ELSE <<ConversationEntry(msgs[1])>> \o Conversation(Tail(msgs))

\* detail_text: seven field lines, a blank line, the rule, the caption, a
\* blank line, then the conversation entries joined by line breaks.
detail_text(session) ==
    <<"Session ID", NL, "Type", NL, "Summary", NL, "Working Directory", NL,
      "Git Branch", NL, "Last Modified", NL, "Total Messages", NL,
      NL, "rule", NL, "Full Conversation", NL, NL>>
    \o join(Conversation(session.messages))

\* What reading the selected session's log can give at a redraw.
LogOutcomes == {"missing", "empty", "error", "short", "long"}

\* Variant: an empty log file is shown as it is, without its placeholder.
log_content_raw_empty(outcome) ==
    CASE outcome = "missing" -> <<"No log file found for this session.", NL, NL,
                                  "Note: Only background agent sessions have log files.">>
      [] outcome = "empty"   -> <<>>
      [] outcome = "error"   -> <<"Error reading log file:", NL, "exception">>
      [] outcome = "short"   -> <<"line", NL>>
      [] OTHER               -> <<"line", NL, "line", NL, "line", NL, "line", NL,
                                  "line", NL, "line", NL, "line", NL, "line", NL,
                                  "line", NL, "line", NL, "line", NL, "line", NL,
                                  "line", NL, "line">>

log_content(outcome) ==
    CASE outcome = "missing" -> <<"No log file found for this session.", NL, NL,
                                  "Note: Only background agent sessions have log files.">>
      [] outcome = "empty"   -> <<"Log file is empty">>
      [] outcome = "error"   -> <<"Error reading log file:", NL, "exception">>
      [] outcome = "short"   -> <<"line", NL>>
      [] OTHER               -> <<"line", NL, "line", NL, "line", NL, "line", NL,
                                  "line", NL, "line", NL, "line", NL, "line", NL,
                                  "line", NL, "line", NL, "line", NL, "line", NL,
                                  "line", NL, "line">>

PlaceholderOutcomes == {"missing", "empty", "error"}


\* ------------------------------------------------------------------ state
VARIABLES
    program,        \* which browser runs: "Tules-sessions" or "claude-sessions"
    provider,       \* session.provider: "claude" or "gemini"
    sessions,       \* the session list handed to the browser
    isatty,         \* sys.stdin.isatty()
    has_termios,    \* whether `import tty, termios` succeeds
    pc,             \* position of the browser
    view_mode, selected_idx, scroll_offset, page_height,
    screen,         \* what the last redraw put on the terminal
    gk,             \* position inside get_key
    ch,             \* get_key's first byte
    key,            \* the value get_key returned
    consumed,       \* bytes taken from stdin by the current/last get_key
    stdin, eof,     \* bytes waiting on standard input; input hung up
    tty_mode, old_settings,
    requests,       \* calls of resume_session: <<[session_id, fork]>>
    printed,        \* one-off messages printed outside the redraws
    proc,           \* the external resume/fork process
    last,           \* the key last dispatched and the state it was dispatched in
    pg_pc,          \* the pager called on its own: position
    pg_content, pg_offset, pg_height,   \* its arguments
    pg_first,       \* what paginate_content returned
    pg_second,      \* what it returned when called again with the first offset
    rd_pc,          \* the renderer's functions called on their own: position
    rd_text,        \* the text handed to them
    rd_matches,     \* the matches FENCE_PATTERN.finditer produced
    rd_blocks,      \* what split_markdown_and_code returned
    rd_norm,        \* what normalize_markdown returned
    rd_out          \* what render_blocks printed, call by call

vars == <<program, provider, sessions, isatty, has_termios, pc, view_mode,
          selected_idx, scroll_offset, page_height, screen, gk, ch, key,
          consumed, stdin, eof, tty_mode, old_settings, requests, printed,
          proc, last, pg_pc, pg_content, pg_offset, pg_height, pg_first,
          pg_second, rd_pc, rd_text, rd_matches, rd_blocks, rd_norm,
          rd_out>>

pager == <<pg_pc, pg_content, pg_offset, pg_height, pg_first, pg_second>>
\* What no step of the browser changes.
renderer == <<rd_pc, rd_text, rd_matches, rd_blocks, rd_norm, rd_out>>
env == <<program, provider, sessions, isatty, has_termios, pager, renderer>>
locals == <<view_mode, selected_idx, scroll_offset>>
decoder == <<gk, ch, key, consumed>>
input == <<stdin, eof>>
termios == <<tty_mode, old_settings>>
effects == <<requests, printed, proc>>

RECURSIVE SessionList(_)
SessionList(n) == IF n = 0 THEN <<>> ELSE Append(SessionList(n - 1), SessionAt(n))

NoScreen == [view |-> None, source |-> None, selected |-> 0, total_lines |-> 0,
             scroll_offset |-> 0, page_height |-> 0, visible |-> <<>>]

NoLast == [key |-> None, view_mode |-> None, selected_idx |-> 0,
           scroll_offset |-> 0, page_height |-> 0]

NoPage == [visible_content |-> <<>>, total_lines |-> 0, scroll_offset |-> 0]

PagerIdle ==
    /\ pg_pc = "off"
    /\ pg_content = <<>>
    /\ pg_offset = 0
    /\ pg_height = 0
    /\ pg_first = NoPage
    /\ pg_second = NoPage

RendererIdle ==
    /\ rd_pc = "off"
    /\ rd_text = <<>>
    /\ rd_matches = <<>>
    /\ rd_blocks = <<>>
    /\ rd_norm = <<>>
    /\ rd_out = <<>>

Init ==
    /\ program \in {"Tules-sessions", "claude-sessions"}
    /\ provider \in {"claude", "gemini"}
    /\ program = "claude-sessions" => provider = "claude"
    /\ \E n \in 0..MaxSessions : sessions = SessionList(n)
    /\ isatty \in BOOLEAN
    /\ has_termios \in BOOLEAN
    /\ pc = "start"
    /\ view_mode = None
    /\ selected_idx = Unset
    /\ scroll_offset = Unset
    /\ page_height = Unset
    /\ screen = NoScreen
    /\ gk = None
    /\ ch = None
    /\ key = None
    /\ consumed = <<>>
    /\ stdin = <<>>
    /\ eof = FALSE
    /\ tty_mode = "cooked"
    /\ old_settings = None
    /\ requests = <<>>
    /\ printed = {}
    /\ proc = "none"
    /\ last = NoLast
    /\ PagerIdle
    /\ RendererIdle

\* -------------------------------------------------------- browser: set-up
\* Variant: the loop is entered with no session.
StartEmpty_enters_loop ==
    /\ pc = "start"
    /\ Len(sessions) = 0
    /\ selected_idx' = 0
    /\ view_mode' = "list"
    /\ scroll_offset' = 0
    /\ printed' = printed \cup {"banner"}
    /\ pc' = "draw"
    /\ UNCHANGED <<env, page_height, screen, decoder, input, termios,
                   requests, proc, last>>

\* `if not sessions`: print the notice and return.
StartEmpty ==
    /\ pc = "start"
    /\ Len(sessions) = 0
    /\ printed' = printed \cup {"no_sessions"}
    /\ pc' = "done"
    /\ UNCHANGED <<env, locals, page_height, screen, decoder, input, termios,
                   requests, proc, last>>

\* Tules-sessions only: `if not sys.stdin.isatty()`: static table, return.
StartNoTty ==
    /\ pc = "start"
    /\ Len(sessions) > 0
    /\ program = "Tules-sessions"
    /\ ~isatty
    /\ printed' = printed \cup {"tty_required", "listing"}
    /\ pc' = "done"
    /\ UNCHANGED <<env, locals, page_height, screen, decoder, input, termios,
                   requests, proc, last>>

\* The locals are set, then `import tty, termios` raises ImportError, which
\* the handler at the end of the function answers with two messages.
StartNoTermios ==
    /\ pc = "start"
    /\ Len(sessions) > 0
    /\ program = "Tules-sessions" => isatty
    /\ ~has_termios
    /\ selected_idx' = 0
    /\ view_mode' = "list"
    /\ scroll_offset' = 0
    /\ printed' = printed \cup {"banner", "termios_missing"}
    /\ pc' = "done"
    /\ UNCHANGED <<env, page_height, screen, decoder, input, termios,
                   requests, proc, last>>

\* Variant: the browser opens on the Detail view.
StartLoop_in_detail ==
    /\ pc = "start"
    /\ Len(sessions) > 0
    /\ program = "Tules-sessions" => isatty
    /\ has_termios
    /\ selected_idx' = 0
    /\ view_mode' = "detail"
    /\ scroll_offset' = 0
    /\ printed' = printed \cup {"banner"}
    /\ pc' = "draw"
    /\ UNCHANGED <<env, page_height, screen, decoder, input, termios,
                   requests, proc, last>>

StartLoop ==
    /\ pc = "start"
    /\ Len(sessions) > 0
    /\ program = "Tules-sessions" => isatty
    /\ has_termios
    /\ selected_idx' = 0
    /\ view_mode' = "list"
    /\ scroll_offset' = 0
    /\ printed' = printed \cup {"banner"}
    /\ pc' = "draw"
    /\ UNCHANGED <<env, page_height, screen, decoder, input, termios,
                   requests, proc, last>>


\* ------------------------------------------------------- browser: redraw
\* The terminal height of this iteration: the reported size, or the
\* fallback when the size cannot be determined.
get_terminal_height == TermHeights \cup {FallbackHeight}

\* Variant: the first session whatever the selection.
Selected_first == sessions[1]

Selected == sessions[selected_idx + 1]

\* Tules-sessions, list view: the table is printed and the scroll is reset.
DrawList ==
    /\ pc = "draw"
    /\ program = "Tules-sessions"
    /\ view_mode = "list"
    /\ \E term_height \in get_terminal_height :
          /\ page_height' = term_height - ReservedLines
          /\ screen' = [view |-> "list", source |-> "table",
                        selected |-> selected_idx, total_lines |-> Len(sessions),
                        scroll_offset |-> 0, page_height |-> page_height',
                        visible |-> <<>>]
    /\ scroll_offset' = 0
    /\ pc' = "drawn"
    /\ UNCHANGED <<env, view_mode, selected_idx, decoder, input, termios,
                   effects, last>>

\* Tules-sessions, detail view: the detail text is paginated and shown.
DrawDetail ==
    /\ pc = "draw"
    /\ program = "Tules-sessions"
    /\ view_mode = "detail"
    /\ \E term_height \in get_terminal_height :
          LET ph == term_height - ReservedLines
              page == paginate_content(detail_text(Selected), scroll_offset, ph)
          IN  /\ page_height' = ph
              /\ scroll_offset' = page.scroll_offset
              /\ screen' = [view |-> "detail", source |-> "detail",
                            selected |-> selected_idx,
                            total_lines |-> page.total_lines,
                            scroll_offset |-> page.scroll_offset,
                            page_height |-> ph,
                            visible |-> page.visible_content]
    /\ pc' = "drawn"
    /\ UNCHANGED <<env, view_mode, selected_idx, decoder, input, termios,
                   effects, last>>

\* Tules-sessions, logs view: the log (or its placeholder) is read afresh,
\* paginated and shown.
DrawLogs ==
    /\ pc = "draw"
    /\ program = "Tules-sessions"
    /\ view_mode = "logs"
    /\ \E term_height \in get_terminal_height, outcome \in LogOutcomes :
          LET ph == term_height - ReservedLines
              page == paginate_content(log_content(outcome), scroll_offset, ph)
          IN  /\ page_height' = ph
              /\ scroll_offset' = page.scroll_offset
              /\ screen' = [view |-> "logs", source |-> outcome,
                            selected |-> selected_idx,
                            total_lines |-> page.total_lines,
                            scroll_offset |-> page.scroll_offset,
                            page_height |-> ph,
                            visible |-> page.visible_content]
    /\ pc' = "drawn"
    /\ UNCHANGED <<env, view_mode, selected_idx, decoder, input, termios,
                   effects, last>>

\* claude-sessions: the table or the detail panel, neither paginated.
DrawClaude ==
    /\ pc = "draw"
    /\ program = "claude-sessions"
    /\ screen' = [view |-> view_mode,
                  source |-> IF view_mode = "list" THEN "table" ELSE "detail",
                  selected |-> selected_idx, total_lines |-> 0,
                  scroll_offset |-> 0, page_height |-> 0, visible |-> <<>>]
    /\ pc' = "drawn"
    /\ UNCHANGED <<env, locals, page_height, decoder, input, termios,
                   effects, last>>


\* ------------------------------------------------------------ key decoder
\* Variant: the settings are saved after the terminal was made raw.
GetKeyEnter_saves_after_setraw ==
    /\ pc = "drawn"
    /\ isatty
    /\ old_settings' = "raw"
    /\ tty_mode' = "raw"
    /\ gk' = "ch1"
    /\ ch' = None
    /\ key' = None
    /\ consumed' = <<>>
    /\ last' = NoLast
    /\ pc' = "get_key"
    /\ UNCHANGED <<env, locals, page_height, screen, input, effects>>

\* get_key: tcgetattr, setraw.  claude-sessions does not test isatty, and
\* tcgetattr on a non-terminal raises termios.error, which nothing catches.
GetKeyEnter ==
    /\ pc = "drawn"
    /\ isatty
    /\ old_settings' = tty_mode
    /\ tty_mode' = "raw"
    /\ gk' = "ch1"
    /\ ch' = None
    /\ key' = None
    /\ consumed' = <<>>
    /\ last' = NoLast
    /\ pc' = "get_key"
    /\ UNCHANGED <<env, locals, page_height, screen, input, effects>>

GetKeyNotATty ==
    /\ pc = "drawn"
    /\ ~isatty
    /\ pc' = "crashed"
    /\ last' = NoLast
    /\ UNCHANGED <<env, locals, page_height, screen, decoder, input, termios,
                   effects>>

\* The keyboard delivers a byte to a waiting read.
Arrive ==
    /\ pc = "get_key"
    /\ stdin = <<>>
    /\ ~eof
    /\ \E b \in Bytes : stdin' = <<b>>
    /\ UNCHANGED <<env, pc, locals, page_height, screen, decoder, eof, termios,
                   effects, last>>

\* The terminal hangs up: from now on a read returns the empty string.
Hangup ==
    /\ pc = "get_key"
    /\ stdin = <<>>
    /\ ~eof
    /\ eof' = TRUE
    /\ UNCHANGED <<env, pc, locals, page_height, screen, decoder, stdin,
                   termios, effects, last>>

\* sys.stdin.read(1): blocks until a byte is there or the input is at its end.
CanRead == stdin # <<>> \/ eof
ReadByte == IF stdin # <<>> THEN Head(stdin) ELSE EOFRead
Took(c) == IF c = EOFRead THEN consumed ELSE Append(consumed, c)
AfterRead(c) ==
    /\ stdin' = (IF stdin # <<>> THEN Tail(stdin) ELSE stdin)
    /\ consumed' = Took(c)
    /\ UNCHANGED eof

\* Variant: get_key leaves without running tcsetattr.
restore_settings_skipped ==
    /\ tty_mode' = tty_mode
    /\ old_settings' = None

\* finally: termios.tcsetattr(fd, termios.TCSADRAIN, old_settings)
restore_settings ==
    /\ tty_mode' = old_settings
    /\ old_settings' = None

\* `return k` through the finally clause: the saved settings are restored.
Return(k) ==
    /\ key' = k
    /\ gk' = None
    /\ ch' = None
    /\ restore_settings
    /\ pc' = "dispatch"

\* A read that is waiting raises (an I/O error, an interrupt): the finally
\* clause runs, and the exception, which nothing catches, leaves the browser.
ReadError ==
    /\ pc = "get_key"
    /\ stdin = <<>>
    /\ ~eof
    /\ gk' = None
    /\ ch' = None
    /\ restore_settings
    /\ pc' = "interrupted"
    /\ UNCHANGED <<env, locals, page_height, screen, key, consumed, input,
                   effects, last>>

\* The byte after ESC '[': the key it stands for, if any.
csi_key(prog, ch3) ==
    CASE ch3 = "A" -> "up"
      [] ch3 = "B" -> "down"
      [] ch3 = "5" /\ prog = "Tules-sessions" -> "pgup"
      [] ch3 = "6" /\ prog = "Tules-sessions" -> "pgdn"
      [] OTHER -> None

\* Variant: the byte after the digit is left in the input.
csi_never_reads_tilde(prog, ch3) == FALSE

\* Whether one more byte (the '~') is read and dropped after ch3.
csi_reads_tilde(prog, ch3) == prog = "Tules-sessions" /\ ch3 \in {"5", "6"}

ReadCh1 ==
    /\ pc = "get_key" /\ gk = "ch1"
    /\ CanRead
    /\ LET c == ReadByte IN
          /\ AfterRead(c)
          /\ IF c = ESC
             THEN /\ ch' = c
                  /\ gk' = "ch2"
                  /\ UNCHANGED <<key, pc, termios>>
             ELSE Return(c)
    /\ UNCHANGED <<env, locals, page_height, screen, effects, last>>

ReadCh2 ==
    /\ pc = "get_key" /\ gk = "ch2"
    /\ CanRead
    /\ LET c2 == ReadByte IN
          /\ AfterRead(c2)
          /\ IF c2 = "["
             THEN /\ gk' = "ch3"
                  /\ UNCHANGED <<ch, key, pc, termios>>
             ELSE Return(ch)
    /\ UNCHANGED <<env, locals, page_height, screen, effects, last>>

ReadCh3 ==
    /\ pc = "get_key" /\ gk = "ch3"
    /\ CanRead
    /\ LET c3 == ReadByte IN
          /\ AfterRead(c3)
          /\ IF csi_reads_tilde(program, c3)
             THEN /\ gk' = csi_key(program, c3)
                  /\ UNCHANGED <<ch, key, pc, termios>>
             ELSE IF csi_key(program, c3) # None
             THEN Return(csi_key(program, c3))
             ELSE Return(ch)
    /\ UNCHANGED <<env, locals, page_height, screen, effects, last>>

\* sys.stdin.read(1)  # consume the '~'
ReadTilde ==
    /\ pc = "get_key" /\ gk \in {"pgup", "pgdn"}
    /\ CanRead
    /\ LET c4 == ReadByte IN
          /\ AfterRead(c4)
          /\ Return(gk)
    /\ UNCHANGED <<env, locals, page_height, screen, effects, last>>


\* ------------------------------------------------- browser: key handlers
\* L is the record of the loop's locals [view_mode, selected_idx,
\* scroll_offset]; ph is page_height, n is len(sessions).
Locals == [view_mode |-> view_mode, selected_idx |-> selected_idx,
           scroll_offset |-> scroll_offset]

key_up(L) ==
    IF L.view_mode = "list"
    THEN [L EXCEPT !.selected_idx = Max(0, L.selected_idx - 1)]
    ELSE [L EXCEPT !.scroll_offset = Max(0, L.scroll_offset - 1)]

\* Variant: no ceiling at the last session.
key_down_unclamped(L, n) ==
    IF L.view_mode = "list"
    THEN [L EXCEPT !.selected_idx = L.selected_idx + 1]
    ELSE [L EXCEPT !.scroll_offset = L.scroll_offset + 1]

\* Variant: Down moves the selection only, as in a browser without scrolling.
key_down_no_scroll(L, n) ==
    IF L.view_mode = "list"
    THEN [L EXCEPT !.selected_idx = Min(n - 1, L.selected_idx + 1)]
    ELSE L

\* Variant: Down in the List view scrolls as well.
key_down_scrolls_list(L, n) ==
    IF L.view_mode = "list"
    THEN [L EXCEPT !.selected_idx = Min(n - 1, L.selected_idx + 1),
                   !.scroll_offset = L.scroll_offset + 1]
    ELSE [L EXCEPT !.scroll_offset = L.scroll_offset + 1]

key_down(L, n) ==
    IF L.view_mode = "list"
    THEN [L EXCEPT !.selected_idx = Min(n - 1, L.selected_idx + 1)]
    ELSE [L EXCEPT !.scroll_offset = L.scroll_offset + 1]

key_pgup(L, ph) ==
    IF L.view_mode # "list"
    THEN [L EXCEPT !.scroll_offset = Max(0, L.scroll_offset - ph)]
    ELSE L

\* Variant: a line step where a page step is meant.
key_pgdn_line(L, ph) ==
    IF L.view_mode # "list"
    THEN [L EXCEPT !.scroll_offset = L.scroll_offset + 1]
    ELSE L

\* Variant: PageDown honoured in every view.
key_pgdn_any_view(L, ph) == [L EXCEPT !.scroll_offset = L.scroll_offset + ph]

key_pgdn(L, ph) ==
    IF L.view_mode # "list"
    THEN [L EXCEPT !.scroll_offset = L.scroll_offset + ph]
    ELSE L

\* Variant: no ceiling at the last session.
key_n_unclamped(L, n) ==
    IF L.view_mode \in {"detail", "logs"}
    THEN [L EXCEPT !.selected_idx = L.selected_idx + 1,
                   !.scroll_offset = 0]
    ELSE L

key_n(L, n) ==
    IF L.view_mode \in {"detail", "logs"}
    THEN [L EXCEPT !.selected_idx = Min(n - 1, L.selected_idx + 1),
                   !.scroll_offset = 0]
    ELSE L

\* Variant: the scroll offset of the session left behind is kept.
key_p_keeps_scroll(L) ==
    IF L.view_mode \in {"detail", "logs"}
    THEN [L EXCEPT !.selected_idx = Max(0, L.selected_idx - 1)]
    ELSE L

key_p(L) ==
    IF L.view_mode \in {"detail", "logs"}
    THEN [L EXCEPT !.selected_idx = Max(0, L.selected_idx - 1),
                   !.scroll_offset = 0]
    ELSE L

\* Variant: the scroll offset survives the change of view.
key_enter_keeps_scroll(L) ==
    IF L.view_mode = "list"
    THEN [L EXCEPT !.view_mode = "detail"]
    ELSE IF L.view_mode \in {"detail", "logs"}
    THEN [L EXCEPT !.view_mode = "list"]
    ELSE L

key_enter(L) ==
    IF L.view_mode = "list"
    THEN [L EXCEPT !.view_mode = "detail", !.scroll_offset = 0]
    ELSE IF L.view_mode \in {"detail", "logs"}
    THEN [L EXCEPT !.view_mode = "list", !.scroll_offset = 0]
    ELSE L

\* Variant: 'l' honoured in the Detail view only.
key_l_detail_only(L) ==
    IF L.view_mode = "detail"
    THEN [L EXCEPT !.view_mode = "logs", !.scroll_offset = 0]
    ELSE L

key_l(L) == [L EXCEPT !.view_mode = "logs", !.scroll_offset = 0]

\* Variant: the scroll offset survives the way back.
key_b_keeps_scroll(L) ==
    IF L.view_mode \in {"detail", "logs"}
    THEN [L EXCEPT !.view_mode = "list"]
    ELSE L

key_b(L) ==
    IF L.view_mode \in {"detail", "logs"}
    THEN [L EXCEPT !.view_mode = "list", !.scroll_offset = 0]
    ELSE L

\* Variant: the newline byte is not an Enter.
EnterKeys_without_newline == {"\r", "v"}
EnterKeys == {"\r", "\n", "v"}
ExitKeys == {"q", "r", "f"}

\* Variant: a key with no branch leads back to the List view.
handle_key_unknown_goes_back(k, L, ph, n) ==
    CASE k = "up"   -> key_up(L)
      [] k = "down" -> key_down(L, n)
      [] k = "pgup" -> key_pgup(L, ph)
      [] k = "pgdn" -> key_pgdn(L, ph)
      [] k = "n"    -> key_n(L, n)
      [] k = "p"    -> key_p(L)
      [] k \in EnterKeys -> key_enter(L)
      [] k = "l"    -> key_l(L)
      [] k = "b"    -> key_b(L)
      [] OTHER      -> [L EXCEPT !.view_mode = "list"]

\* The if/elif chain of Tules-sessions for the keys that keep the loop going.
handle_key(k, L, ph, n) ==
    CASE k = "up"   -> key_up(L)
      [] k = "down" -> key_down(L, n)
      [] k = "pgup" -> key_pgup(L, ph)
      [] k = "pgdn" -> key_pgdn(L, ph)
      [] k = "n"    -> key_n(L, n)
      [] k = "p"    -> key_p(L)
      [] k \in EnterKeys -> key_enter(L)
      [] k = "l"    -> key_l(L)
      [] k = "b"    -> key_b(L)
      [] OTHER      -> L

\* claude-sessions: two views, no scrolling.
cs_key_up(L) ==
    IF L.view_mode = "list"
    THEN [L EXCEPT !.selected_idx = Max(0, L.selected_idx - 1)]
    ELSE L

cs_key_down(L, n) ==
    IF L.view_mode = "list"
    THEN [L EXCEPT !.selected_idx = Min(n - 1, L.selected_idx + 1)]
    ELSE L

cs_key_enter(L) ==
    IF L.view_mode = "list"
    THEN [L EXCEPT !.view_mode = "detail"]
    ELSE [L EXCEPT !.view_mode = "list"]

cs_key_b(L) ==
    IF L.view_mode = "detail" THEN [L EXCEPT !.view_mode = "list"] ELSE L

cs_handle_key(k, L, n) ==
    CASE k = "up"   -> cs_key_up(L)
      [] k = "down" -> cs_key_down(L, n)
      [] k \in EnterKeys -> cs_key_enter(L)
      [] k = "b"    -> cs_key_b(L)
      [] OTHER      -> L

Remember == [key |-> key, view_mode |-> view_mode, selected_idx |-> selected_idx,
             scroll_offset |-> scroll_offset, page_height |-> page_height]

\* Any key but q, r, f: the locals change and the loop goes round.
HandleKey ==
    /\ pc = "dispatch"
    /\ key \notin ExitKeys
    /\ LET L == IF program = "Tules-sessions"
                THEN handle_key(key, Locals, page_height, Len(sessions))
                ELSE cs_handle_key(key, Locals, Len(sessions))
       IN  /\ view_mode' = L.view_mode
           /\ selected_idx' = L.selected_idx
           /\ scroll_offset' = L.scroll_offset
    /\ last' = Remember
    /\ pc' = "draw"
    /\ UNCHANGED <<env, page_height, screen, decoder, input, termios, effects>>

\* Variant: 'q' is dispatched but the loop goes round.
Quit_keeps_looping ==
    /\ pc = "dispatch"
    /\ key = "q"
    /\ last' = Remember
    /\ pc' = "draw"
    /\ UNCHANGED <<env, locals, page_height, screen, decoder, input, termios,
                   effects>>

\* `if key == 'q': break`
Quit ==
    /\ pc = "dispatch"
    /\ key = "q"
    /\ last' = Remember
    /\ pc' = "done"
    /\ UNCHANGED <<env, locals, page_height, screen, decoder, input, termios,
                   effects>>

\* Variant: every provider can fork.
get_resume_command_always(prog, prov, fork) == "args"

\* provider.get_resume_command: Gemini cannot fork and answers None.
\* claude-sessions builds the claude command line itself.
get_resume_command(prog, prov, fork) ==
    IF prog = "Tules-sessions" /\ prov = "gemini" /\ fork THEN None ELSE "args"

\* `resume_session(sessions[selected_idx], fork); break`
Resume ==
    /\ pc = "dispatch"
    /\ key \in {"r", "f"}
    /\ LET fork == (key = "f")
           args == get_resume_command(program, provider, fork)
       IN  /\ requests' = Append(requests, [session_id |-> Selected.id, fork |-> fork])
           /\ IF args = None
              THEN /\ printed' = printed \cup {"fork_unsupported"}
                   /\ proc' = proc
                   /\ pc' = "done"
              ELSE /\ printed' = printed \cup {"resuming"}
                   /\ proc' = "running"
                   /\ pc' = "subprocess"
    /\ last' = Remember
    /\ UNCHANGED <<env, locals, page_height, screen, decoder, input, termios>>

\* Variant: no `break` after resume_session.
SubprocessExit_no_break ==
    /\ pc = "subprocess"
    /\ proc = "running"
    /\ proc' = "returned"
    /\ pc' = "draw"
    /\ UNCHANGED <<env, locals, page_height, screen, decoder, input, termios,
                   requests, printed, last>>

\* subprocess.run returns; the `break` ends the loop.
SubprocessExit ==
    /\ pc = "subprocess"
    /\ proc = "running"
    /\ proc' = "returned"
    /\ pc' = "done"
    /\ UNCHANGED <<env, locals, page_height, screen, decoder, input, termios,
                   requests, printed, last>>

Next ==
    \/ StartEmpty \/ StartNoTty \/ StartNoTermios \/ StartLoop
    \/ DrawList \/ DrawDetail \/ DrawLogs \/ DrawClaude
    \/ GetKeyEnter \/ GetKeyNotATty \/ Arrive \/ Hangup
    \/ ReadCh1 \/ ReadCh2 \/ ReadCh3 \/ ReadTilde \/ ReadError
    \/ HandleKey \/ Quit \/ Resume \/ SubprocessExit

Spec == Init /\ [][Next]_vars

\* ------------------------------------------------- the pager on its own
\* paginate_content applied to every text, offset and height within the
\* bounds, then applied again to the offset it returned.
TextAtoms == {"a", "b", NL}
Texts == UNION {[1..n -> TextAtoms] : n \in 0..MaxLen}
Offsets == (0 - 1)..MaxOffset
Heights == (0 - MaxHeight)..MaxHeight

browser == <<program, provider, sessions, isatty, has_termios, pc, view_mode,
             selected_idx, scroll_offset, page_height, screen, gk, ch, key,
             consumed, stdin, eof, tty_mode, old_settings, requests, printed,
             proc, last>>

BrowserIdle ==
    /\ program = "Tules-sessions"
    /\ provider = "claude"
    /\ sessions = <<>>
    /\ isatty = FALSE
    /\ has_termios = FALSE
    /\ pc = "off"
    /\ view_mode = None
    /\ selected_idx = Unset
    /\ scroll_offset = Unset
    /\ page_height = Unset
    /\ screen = NoScreen
    /\ gk = None
    /\ ch = None
    /\ key = None
    /\ consumed = <<>>
    /\ stdin = <<>>
    /\ eof = FALSE
    /\ tty_mode = "cooked"
    /\ old_settings = None
    /\ requests = <<>>
    /\ printed = {}
    /\ proc = "none"
    /\ last = NoLast

PagerInit ==
    /\ BrowserIdle
    /\ RendererIdle
    /\ pg_pc = "call"
    /\ pg_content \in Texts
    /\ pg_offset \in Offsets
    /\ pg_height \in Heights
    /\ pg_first = NoPage
    /\ pg_second = NoPage

Paginate ==
    /\ pg_pc = "call"
    /\ pg_first' = paginate_content(pg_content, pg_offset, pg_height)
    /\ pg_pc' = "paged"
    /\ UNCHANGED <<browser, renderer, pg_content, pg_offset, pg_height,
                   pg_second>>

PaginateAgain ==
    /\ pg_pc = "paged"
    /\ pg_second' = paginate_content(pg_content, pg_first.scroll_offset, pg_height)
    /\ pg_pc' = "repaged"
    /\ UNCHANGED <<browser, renderer, pg_content, pg_offset, pg_height,
                   pg_first>>

PagerNext == Paginate \/ PaginateAgain

SpecPager == PagerInit /\ [][PagerNext]_vars

\* ------------------------------------------- tui_renderer: render_blocks
\* What console.print is called with, call by call.
PrintedMarkdown(md_text) == [print |-> "Markdown", text |-> md_text]
BlankLine == [print |-> "blank line"]
PrintedPanel(lang, code) ==
    [print |-> "Panel", title |-> lang, lexer |-> lang, code |-> code]

\* The lexer name "text".
PlainText == <<"t", "e", "x", "t">>

\* Variant: the language is passed on as it is, absent or not.
render_block_no_default(block) ==
    IF block.kind = "TextBlock"
    THEN <<PrintedMarkdown(normalize_markdown(block.markdown)), BlankLine>>
    ELSE <<PrintedPanel(block.language, block.code)>>

\* One turn of the for loop; `block.language or "text"`.
render_block(block) ==
    IF block.kind = "TextBlock"
    THEN <<PrintedMarkdown(normalize_markdown(block.markdown)), BlankLine>>
    ELSE LET lang == IF block.language = <<>> THEN PlainText
                     ELSE block.language
         IN  <<PrintedPanel(lang, block.code)>>

RECURSIVE render_blocks(_)
render_blocks(blocks) ==
    IF blocks = <<>> THEN <<>>
    ELSE render_block(Head(blocks)) \o render_blocks(Tail(blocks))

\* --------------------------------------------- the renderer on its own
\* split_markdown_and_code and normalize_markdown applied to every text of
\* up to MaxTokens tokens, and to the fence example of the documentation.
FenceTokens == {Fence, <<"a">>, <<".">>, <<" ">>, <<NL>>}
HeadingChars == {"#", " ", "a", NL}

RECURSIVE Flatten(_)
Flatten(ss) == IF ss = <<>> THEN <<>> ELSE Head(ss) \o Flatten(Tail(ss))

FencedTexts ==
    {Flatten(ts) : ts \in UNION {[1..n -> FenceTokens] : n \in 0..MaxTokens}}
HeadingTexts == UNION {[1..n -> HeadingChars] : n \in 0..MaxTokens}

\* "before\n```python\nprint(1)\n```\nafter", the words as one letter each.
FenceExample ==
    <<"a", NL>> \o Fence \o <<"a", NL, "a", ".", "a", NL>> \o Fence
    \o <<NL, "a">>

\* "# Title\n```\n```\n```python\ncode\n```": a heading, a fence without a
\* tag and one with a tag.
RenderExample ==
    <<"#", " ", "a", NL>> \o Fence \o <<NL>> \o Fence \o <<NL>> \o Fence
    \o <<"a", NL, "a", NL>> \o Fence

Documents == FencedTexts \cup HeadingTexts \cup {FenceExample, RenderExample}

RendererInit ==
    /\ BrowserIdle
    /\ PagerIdle
    /\ rd_pc = "call"
    /\ rd_text \in Documents
    /\ rd_matches = <<>>
    /\ rd_blocks = <<>>
    /\ rd_norm = <<>>
    /\ rd_out = <<>>

Split ==
    /\ rd_pc = "call"
    /\ rd_matches' = finditer(rd_text, 1)
    /\ rd_blocks' = split_markdown_and_code(rd_text)
    /\ rd_pc' = "split"
    /\ UNCHANGED <<browser, pager, rd_text, rd_norm, rd_out>>

Normalize ==
    /\ rd_pc = "split"
    /\ rd_norm' = normalize_markdown(rd_text)
    /\ rd_pc' = "normalized"
    /\ UNCHANGED <<browser, pager, rd_text, rd_matches, rd_blocks, rd_out>>

\* render_response: the blocks of the split are rendered.
Render ==
    /\ rd_pc = "normalized"
    /\ rd_out' = render_blocks(rd_blocks)
    /\ rd_pc' = "rendered"
    /\ UNCHANGED <<browser, pager, rd_text, rd_matches, rd_blocks, rd_norm>>

RendererNext == Split \/ Normalize \/ Render

SpecRenderer == RendererInit /\ [][RendererNext]_vars

TypeOK ==
    /\ pc \in {"start", "draw", "drawn", "get_key", "dispatch", "subprocess",
               "done", "crashed", "interrupted", "off"}
    /\ view_mode \in {None, "list", "detail", "logs"}
    /\ tty_mode \in {"cooked", "raw"}
    /\ Len(stdin) <= 1


\* ================================================================ claims
Tules == program = "Tules-sessions"
InLoop == pc \in {"draw", "drawn", "get_key", "dispatch"}
Paged == screen.view \in {"detail", "logs"}

\* The content the last redraw paginated.
ShownContent ==
    IF screen.view = "detail" THEN detail_text(sessions[screen.selected + 1])
    ELSE log_content(screen.source)

ShownMaxOffset == Max(0, Len(split(ShownContent)) - screen.page_height)

\* C1: at every redraw of the Detail or Logs view, the scroll offset used for
\* display lies in [0, max(0, totalLines - viewportHeight)], totalLines being
\* the line count of the content shown and viewportHeight the height computed
\* for that redraw.
C1_ScrollOffsetClamped ==
    (Tules /\ pc \in {"drawn", "get_key", "dispatch"} /\ Paged) =>
        /\ screen.view = view_mode
        /\ screen.page_height = page_height
        /\ screen.scroll_offset = scroll_offset
        /\ screen.total_lines = Len(split(ShownContent))
        /\ 0 <= scroll_offset
        /\ scroll_offset <= ShownMaxOffset

\* A redraw that had to clamp: PageDown had pushed the offset past the end.
C1_Witness ==
    /\ Tules /\ pc = "drawn" /\ Paged
    /\ last.key = "pgdn"
    /\ last.scroll_offset + last.page_height > ShownMaxOffset
    /\ scroll_offset = ShownMaxOffset
    /\ scroll_offset > 0

\* C2: with a non-empty session list, selectedIndex stays in
\* [0, sessionCount-1] in every state of the browser, whatever keys arrive.
C2_SelectedIndexInRange ==
    (view_mode # None /\ Len(sessions) > 0) =>
        (0 <= selected_idx /\ selected_idx <= Len(sessions) - 1)

\* next-session pressed in the Logs view of the last session.
C2_Witness ==
    /\ pc = "draw"
    /\ last.key = "n"
    /\ last.view_mode = "logs"
    /\ last.selected_idx = Len(sessions) - 1
    /\ selected_idx = Len(sessions) - 1
    /\ Len(sessions) > 1


\* The state a key was dispatched in is kept in `last` until the next
\* get_key starts; Handled(k) says that key k has just been dispatched.
Handled(keys) == last.key \in keys
SameSelection == selected_idx = last.selected_idx
SameLocals ==
    /\ view_mode = last.view_mode
    /\ selected_idx = last.selected_idx
    /\ scroll_offset = last.scroll_offset

\* C3 as stated: 'l' moves Detail to Logs with scrollOffset 0 and is a no-op
\* in List (the view stays List) and in Logs (view and scrollOffset stay).
C3_LogsKeyAsStated ==
    (Tules /\ pc = "draw" /\ Handled({"l"})) =>
        /\ last.view_mode = "detail" => (view_mode = "logs" /\ scroll_offset = 0)
        /\ last.view_mode = "list" => view_mode = "list"
        /\ last.view_mode = "logs" => (view_mode = "logs"
                                       /\ scroll_offset = last.scroll_offset)

\* C3 (amended): in Tules-sessions 'l' leads to the Logs view with
\* scrollOffset 0 from every view (List, Detail and Logs alike) and leaves
\* selectedIndex alone.
C3_LogsKeyFromEveryView ==
    (Tules /\ pc = "draw" /\ Handled({"l"})) =>
        (view_mode = "logs" /\ scroll_offset = 0 /\ SameSelection)

\* 'l' pressed in the List view.
C3_Witness ==
    /\ Tules /\ pc = "draw" /\ Handled({"l"})
    /\ last.view_mode = "list"
    /\ view_mode = "logs"

ForkUnsupported == Tules /\ provider = "gemini" /\ Handled({"f"})

\* C4 as stated: fork answered 'not supported' prints a message, starts no
\* process, leaves view, selectedIndex and scrollOffset alone, and the loop
\* goes on to accept keys.
C4_UnsupportedForkAsStated ==
    ForkUnsupported =>
        /\ "fork_unsupported" \in printed
        /\ proc = "none"
        /\ SameLocals
        /\ InLoop

\* C4 (amended): fork answered 'not supported' prints a message, starts no
\* process and leaves view, selectedIndex and scrollOffset alone, but the
\* loop ends as after any fork request: no further key is read.
C4_UnsupportedForkEndsLoop ==
    ForkUnsupported =>
        /\ "fork_unsupported" \in printed
        /\ "resuming" \notin printed
        /\ proc = "none"
        /\ SameLocals
        /\ pc = "done"

C4_Witness ==
    /\ ForkUnsupported
    /\ last.view_mode = "detail"
    /\ "fork_unsupported" \in printed
    /\ pc = "done"

\* C5: a lone escape byte with nothing further available makes get_key
\* return the escape without waiting: once ESC is read and no byte is
\* waiting, the decoder can take its next step without another byte arriving.
C5_LoneEscapeReturns ==
    (pc = "get_key" /\ gk = "ch2" /\ stdin = <<>>) => ENABLED ReadCh2


\* The bytes get_key has taken begin with ESC '[' c.
Csi(c) ==
    /\ Len(consumed) >= 3
    /\ consumed[1] = ESC /\ consumed[2] = "[" /\ consumed[3] = c

\* C6: Tules-sessions decodes ESC [ A to Up, ESC [ B to Down, ESC [ 5 ~ to
\* PageUp and ESC [ 6 ~ to PageDown, one event per invocation; for the page
\* keys the byte after the digit is taken from the input and dropped, so the
\* invocation ends having consumed the whole sequence and nothing more.
C6_CsiDecoding ==
    (Tules /\ pc = "dispatch") =>
        /\ Csi("A") => (key = "up" /\ consumed = <<ESC, "[", "A">>)
        /\ Csi("B") => (key = "down" /\ consumed = <<ESC, "[", "B">>)
        /\ Csi("5") => (key = "pgup" /\ (~eof => Len(consumed) = 4))
        /\ Csi("6") => (key = "pgdn" /\ (~eof => Len(consumed) = 4))
        /\ Len(consumed) <= 4

\* ESC [ 5 ~ has been read as one PageUp event.
C6_Witness ==
    /\ Tules /\ pc = "dispatch"
    /\ consumed = <<ESC, "[", "5", "~">>
    /\ key = "pgup"

\* C7: in the List view Down sets selectedIndex to
\* min(sessionCount-1, selectedIndex+1) and Up to max(0, selectedIndex-1),
\* and the view stays List; Down on the last of 3 sessions leaves index 2.
C7_ListNavigation ==
    (pc = "draw" /\ last.view_mode = "list") =>
        /\ Handled({"down"}) =>
              /\ selected_idx = Min(Len(sessions) - 1, last.selected_idx + 1)
              /\ view_mode = "list"
        /\ Handled({"up"}) =>
              /\ selected_idx = Max(0, last.selected_idx - 1)
              /\ view_mode = "list"

\* The third Down of the scenario: 3 sessions, index 2, Down, still 2.
C7_Witness ==
    /\ pc = "draw" /\ last.view_mode = "list"
    /\ Handled({"down"})
    /\ Len(sessions) = 3
    /\ last.selected_idx = 2
    /\ selected_idx = 2

C9_EnterToggles ==
    (pc = "draw" /\ Handled(EnterKeys)) =>
        /\ last.view_mode = "list" => view_mode = "detail"
        /\ last.view_mode \in {"detail", "logs"} => view_mode = "list"
        /\ scroll_offset = 0
        /\ SameSelection

\* 'v' pressed in a scrolled Logs view.
C9_Witness ==
    /\ pc = "draw" /\ Handled({"v"})
    /\ last.view_mode = "logs"
    /\ last.scroll_offset > 0
    /\ view_mode = "list"

\* C10: 'r' and 'f', in any view, issue exactly one resume/fork request, for
\* the session at the current selectedIndex, and the loop ends: the browser
\* is then running the external process or has returned, and neither reads a
\* key nor redraws.
C10_ResumeForkOnce ==
    /\ Len(requests) <= 1
    /\ Handled({"r", "f"}) <=> requests # <<>>
    /\ Handled({"r", "f"}) =>
          /\ requests = <<[session_id |-> sessions[last.selected_idx + 1].id,
                           fork |-> (last.key = "f")]>>
          /\ SameLocals
          /\ pc \in {"subprocess", "done"}

\* Fork pressed in the Logs view of the third session.
C10_Witness ==
    /\ Handled({"f"})
    /\ last.view_mode = "logs"
    /\ last.selected_idx = 2
    /\ requests = <<[session_id |-> 3, fork |-> TRUE]>>
    /\ pc = "done"


\* C11: the quit character ends the loop from List, Detail and Logs alike:
\* once 'q' is dispatched the browser has returned, no key is read or view
\* redrawn after it, and no resume or fork request is ever issued.
C11_QuitEndsLoop ==
    Handled({"q"}) =>
        /\ pc = "done"
        /\ requests = <<>>
        /\ proc = "none"
        /\ "resuming" \notin printed
        /\ SameLocals
        /\ screen.view = last.view_mode

\* 'q' pressed in the Logs view.
C11_Witness ==
    /\ Handled({"q"})
    /\ last.view_mode = "logs"
    /\ pc = "done"

Exited == pc \in {"done", "subprocess", "interrupted", "crashed"}

\* C12: whenever the browse loop has been left, through quit, resume, fork or
\* an error raised while a key was being read, the terminal is in the mode it
\* had before raw mode was entered.
C12_ModeRestoredOnExit ==
    Exited => (tty_mode = "cooked" /\ old_settings = None)

\* A read raised while the Detail view was waiting for a key.
C12_Witness ==
    /\ pc = "interrupted"
    /\ view_mode = "detail"
    /\ screen.view = "detail"
    /\ tty_mode = "cooked"

RawInputUnavailable == ~isatty \/ ~has_termios

\* C13: when stdin is not a terminal or the terminal-control module is
\* missing, the browser never reads a key and never enters the loop (nothing
\* is redrawn); it prints the session listing and returns.
C13_NoRawInputListsOnce ==
    (Len(sessions) > 0 /\ RawInputUnavailable /\ pc # "start") =>
        /\ pc = "done"
        /\ "listing" \in printed
        /\ screen = NoScreen
        /\ key = None
        /\ consumed = <<>>

\* Line counts of the three placeholder texts of the Logs view.
PlaceholderLines(outcome) ==
    CASE outcome = "missing" -> 3
      [] outcome = "empty"   -> 1
      [] OTHER               -> 2

\* C14: when the selected session has no log content (no file, an empty file
\* or a read error) the Logs view is drawn all the same: the view is Logs, a
\* non-empty placeholder text is paginated and shown, and the browser goes on
\* to read the next key.
C14_LogsPlaceholderShown ==
    (Tules /\ pc = "drawn" /\ screen.view = "logs"
           /\ screen.source \in PlaceholderOutcomes) =>
        /\ view_mode = "logs"
        /\ screen.total_lines = PlaceholderLines(screen.source)
        /\ scroll_offset = screen.scroll_offset
        /\ page_height >= 1 => screen.visible # <<>>
        /\ page_height >= screen.total_lines =>
              Len(split(screen.visible)) = PlaceholderLines(screen.source)
        /\ ENABLED GetKeyEnter

\* 'l' pressed in Detail, the log file turns out to be empty.
C14_Witness ==
    /\ Tules /\ pc = "drawn" /\ Handled({"l"})
    /\ last.view_mode = "detail"
    /\ screen.view = "logs"
    /\ screen.source = "empty"
    /\ screen.visible = <<"Log file is empty">>

\* C15: 'b' moves Detail or Logs to List with scrollOffset 0 and leaves
\* selectedIndex unchanged.
C15_BackToList ==
    (pc = "draw" /\ Handled({"b"}) /\ last.view_mode \in {"detail", "logs"}) =>
        /\ view_mode = "list"
        /\ scroll_offset = 0
        /\ SameSelection

\* 'b' pressed in a scrolled Detail view of the second session.
C15_Witness ==
    /\ pc = "draw" /\ Handled({"b"})
    /\ last.view_mode = "detail"
    /\ last.scroll_offset > 0
    /\ last.selected_idx = 1
    /\ view_mode = "list"

\* C16: in Detail or Logs, 'n' sets selectedIndex to
\* min(sessionCount-1, selectedIndex+1) and 'p' to max(0, selectedIndex-1);
\* both reset scrollOffset to 0 and keep the view.
C16_NextPrevSession ==
    (Tules /\ pc = "draw" /\ last.view_mode \in {"detail", "logs"}) =>
        /\ Handled({"n"}) =>
              /\ selected_idx = Min(Len(sessions) - 1, last.selected_idx + 1)
              /\ scroll_offset = 0
              /\ view_mode = last.view_mode
        /\ Handled({"p"}) =>
              /\ selected_idx = Max(0, last.selected_idx - 1)
              /\ scroll_offset = 0
              /\ view_mode = last.view_mode

\* 'p' pressed in a scrolled Logs view of the second session.
C16_Witness ==
    /\ Tules /\ pc = "draw" /\ Handled({"p"})
    /\ last.view_mode = "logs"
    /\ last.scroll_offset > 0
    /\ last.selected_idx = 1
    /\ selected_idx = 0
    /\ view_mode = "logs"

\* C17: the browser starts in the List view with selectedIndex 0 and
\* scrollOffset 0: that is the state of the locals before the first redraw,
\* when no key has been read yet.
C17_InitialViewState ==
    (view_mode # None /\ screen = NoScreen) =>
        /\ view_mode = "list"
        /\ selected_idx = 0
        /\ scroll_offset = 0
        /\ key = None
        /\ consumed = <<>>
        /\ last = NoLast

\* The loop is about to draw for the first time.
C17_Witness ==
    /\ pc = "draw"
    /\ screen = NoScreen
    /\ view_mode = "list"
    /\ selected_idx = 0
    /\ scroll_offset = 0


Paged1 == pg_pc \in {"paged", "repaged"}

C19_PaginateWholeContent ==
    (Paged1 /\ pg_height = Len(split(pg_content)) /\ pg_offset >= 0) =>
        /\ pg_first.scroll_offset = 0
        /\ pg_first.visible_content = pg_content
        /\ pg_first.total_lines = pg_height

\* Three lines, height 3, requested offset 2.
C19_Witness ==
    /\ pg_pc = "paged"
    /\ pg_height = 3
    /\ Len(split(pg_content)) = 3
    /\ pg_offset = 2
    /\ pg_first.scroll_offset = 0
    /\ pg_first.visible_content = pg_content

\* C20: for every content and offset, paginate with a height <= 0 returns
\* no visible line (an empty visible text) and raises no error.
C20_NoLinesAtNonPositiveHeight ==
    (Paged1 /\ pg_height <= 0) => pg_first.visible_content = <<>>


\* C21: a first byte that is neither ESC nor a line terminator is returned
\* as the character it is, and carriage return and newline are returned as
\* themselves and dispatched as Enter (the view toggles); each such byte is
\* one returned key and exactly one byte taken from the input.
C21_SingleByteDecoding ==
    /\ (pc = "dispatch" /\ consumed # <<>> /\ consumed[1] # ESC) =>
          /\ key = consumed[1]
          /\ consumed = <<key>>
    /\ (pc = "draw" /\ consumed # <<>> /\ consumed[1] \in {"\r", "\n"}) =>
          /\ consumed = <<last.key>>
          /\ last.view_mode = "list" => view_mode = "detail"
          /\ last.view_mode \in {"detail", "logs"} => view_mode = "list"
          /\ SameSelection

\* A newline read in the List view: one byte, one key, the Detail view opens.
C21_Witness ==
    /\ pc = "draw"
    /\ consumed = <<"\n">>
    /\ last.key = "\n"
    /\ last.view_mode = "list"
    /\ view_mode = "detail"

\* C28: in Detail or Logs, Up sets scrollOffset to max(0, scrollOffset-1)
\* and Down raises it by 1, which the next redraw shows as
\* min(scrollOffset+1, maxOffset); neither key changes the view or
\* selectedIndex.
C28_LineScrolling ==
    (Tules /\ last.view_mode \in {"detail", "logs"}) =>
        /\ (pc = "draw" /\ Handled({"up"})) =>
              /\ scroll_offset = Max(0, last.scroll_offset - 1)
              /\ view_mode = last.view_mode /\ SameSelection
        /\ (pc = "draw" /\ Handled({"down"})) =>
              /\ scroll_offset = last.scroll_offset + 1
              /\ view_mode = last.view_mode /\ SameSelection
        /\ (pc = "drawn" /\ Handled({"down"})) =>
              /\ scroll_offset = Min(last.scroll_offset + 1, ShownMaxOffset)
              /\ screen.scroll_offset = scroll_offset
              /\ view_mode = last.view_mode /\ SameSelection

\* Down pressed at the end of the Detail text: the redraw stays at maxOffset.
C28_Witness ==
    /\ Tules /\ pc = "drawn" /\ Handled({"down"})
    /\ last.view_mode = "detail"
    /\ last.page_height = page_height
    /\ last.scroll_offset = ShownMaxOffset
    /\ scroll_offset = ShownMaxOffset
    /\ scroll_offset > 0

\* C29: in the List view PageUp, PageDown, 'b', 'n' and 'p' change nothing:
\* view, selectedIndex and scrollOffset are as before and the loop goes on
\* to the next redraw.
C29_ListNoOps ==
    (Handled({"pgup", "pgdn", "b", "n", "p"}) /\ last.view_mode = "list") =>
        /\ SameLocals
        /\ InLoop

\* PageDown pressed in the List view with a page height of 10.
C29_Witness ==
    /\ pc = "draw" /\ Handled({"pgdn"})
    /\ last.view_mode = "list"
    /\ last.page_height = 10
    /\ SameLocals

\* C30: the external process starts only after the last key read and the
\* last redraw: once it runs or has returned, no step reads a byte, returns a
\* key, redraws or goes back into the loop.
C30_ResumeAfterLoop ==
    [][proc # "none" =>
          /\ screen' = screen
          /\ consumed' = consumed /\ stdin' = stdin /\ key' = key
          /\ tty_mode' = tty_mode
          /\ pc' \in {"subprocess", "done"}]_vars

\* The process, asked for in the Detail view, has returned.
C30_Witness ==
    /\ proc = "returned"
    /\ pc = "done"
    /\ Handled({"r"})
    /\ screen.view = "detail"
    /\ tty_mode = "cooked"


\* ------------------------------------------------ claims on the renderer
Splitted == rd_pc \in {"split", "normalized", "rendered"}
BlockText(b) == IF b.kind = "TextBlock" THEN b.markdown ELSE b.code
Codes == SelectSeq(rd_blocks, LAMBDA b : b.kind = "CodeBlock")
NoBacktick(t, a, b) == \A k \in a..b : t[k] # Backtick
Blank(s) == \A k \in 1..Len(s) : s[k] \in {" ", NL}
Trim(s) ==
    LET inked == {k \in 1..Len(s) : s[k] \notin {" ", NL}}
    IN  IF inked = {} THEN <<>> ELSE Slice(s, MinOf(inked), MaxOf(inked))
EndsWith(s, suffix) ==
    /\ Len(suffix) <= Len(s)
    /\ Slice(s, Len(s) - Len(suffix) + 1, Len(s)) = suffix

\* t[1..hi] is: text without backticks, a triple backtick at i that begins a
\* line, a tag of word characters, the line break at e, a body without
\* backticks, the closing triple backtick at j, text without backticks.
ClosedFence(t, i, e, j, hi) ==
    /\ IsFenceAt(t, i) /\ (i = 1 \/ t[i - 1] = NL)
    /\ e >= i + 3 /\ e <= hi /\ t[e] = NL
    /\ \A k \in (i + 3)..(e - 1) : t[k] \in WordChars
    /\ j > e /\ j + 2 <= hi /\ IsFenceAt(t, j)
    /\ NoBacktick(t, 1, i - 1)
    /\ NoBacktick(t, e + 1, j - 1)
    /\ NoBacktick(t, j + 3, hi)

\* A segment as the claims word it: prose up to surrounding whitespace, code
\* with its tag.
Segment(b) ==
    IF b.kind = "TextBlock" THEN <<"Prose", <<>>, Trim(b.markdown)>>
    ELSE <<"Code", b.language, b.code>>
Segments == [k \in 1..Len(rd_blocks) |-> Segment(rd_blocks[k])]
ProseOf(s) == IF Blank(s) THEN <<>> ELSE << <<"Prose", <<>>, Trim(s)>> >>

\* C22: for a text with one closed fence, split gives the non-blank text
\* before it as Prose, then Code with the fence's tag and its body (what
\* lies between the opening line and the line break before the closing
\* backticks), then the non-blank text after it as Prose, in this order.
C22_OneFenceInOrder ==
    Splitted =>
        \A i, e, j \in 1..Len(rd_text) :
            ClosedFence(rd_text, i, e, j, Len(rd_text)) =>
                Segments =
                    ProseOf(Slice(rd_text, 1, i - 1))
                    \o << <<"Code", Slice(rd_text, i + 3, e - 1),
                            rstrip_newlines(Slice(rd_text, e + 1, j - 1))>> >>
                    \o ProseOf(Slice(rd_text, j + 3, Len(rd_text)))

\* C23: a triple backtick with no triple backtick anywhere after it gives no
\* Code segment: it and everything after it stand verbatim at the end of a
\* Prose segment, after a closed fence as well, and when the text has no
\* other backtick the result is one Prose segment equal to the whole text.
C23_UnterminatedFenceIsProse ==
    Splitted =>
        \A u \in 1..Len(rd_text) :
            (IsFenceAt(rd_text, u) /\ NoBacktick(rd_text, u + 3, Len(rd_text))) =>
                /\ NoBacktick(rd_text, 1, u - 1) =>
                      /\ rd_blocks = <<TextBlock(rd_text)>>
                      /\ rd_matches = <<>>
                /\ \A i, e, j \in 1..(u - 1) :
                      ClosedFence(rd_text, i, e, j, u - 1) =>
                          /\ Len(Codes) = 1
                          /\ rd_matches[1].start = i /\ rd_matches[1].end = j + 3
                          /\ rd_blocks[Len(rd_blocks)].kind = "TextBlock"
                          /\ EndsWith(rd_blocks[Len(rd_blocks)].markdown,
                                      Slice(rd_text, u, Len(rd_text)))

\* An opening line and a body, never closed.
C23_Witness ==
    /\ Splitted
    /\ rd_text = Fence \o <<"a", NL, "a", NL>>
    /\ rd_blocks = <<TextBlock(rd_text)>>

\* A fence opens at i: a triple backtick, an optional tag of word
\* characters, optional whitespace, a line break, and a triple backtick
\* somewhere after that line break.
FenceOpensAt(t, i) ==
    /\ IsFenceAt(t, i)
    /\ \E e, n \in (i + 3)..Len(t) :
          /\ e <= n
          /\ \A k \in (i + 3)..(e - 1) : t[k] \in WordChars
          /\ \A k \in e..n : t[k] \in SpaceChars
          /\ t[n] = NL
          /\ \E m \in (n + 1)..Len(t) : IsFenceAt(t, m)

\* C24: for a text with no fence, split returns one Prose segment whose
\* trimmed content is the trimmed text, and no segment at all when the text
\* is empty or whitespace only.
C24_NoFenceOneProse ==
    (Splitted /\ \A i \in 1..Len(rd_text) : ~FenceOpensAt(rd_text, i)) =>
        IF Blank(rd_text)
        THEN rd_blocks = <<>>
        ELSE /\ Len(rd_blocks) = 1
             /\ rd_blocks[1].kind = "TextBlock"
             /\ Trim(rd_blocks[1].markdown) = Trim(rd_text)

\* Plain text with whitespace around it.
C24_Witness ==
    /\ Splitted
    /\ rd_text = <<" ", "a", " ", "a", NL>>
    /\ Len(rd_blocks) = 1
    /\ Trim(rd_blocks[1].markdown) = <<"a", " ", "a">>

\* The characters of the k-th match between the line break that ends its
\* opening line and its closing backticks.
BodyRegion(k) ==
    LET m == rd_matches[k]
        e == MinOf({n \in m.start..(m.end - 1) : rd_text[n] = NL})
    IN  Slice(rd_text, e + 1, m.end - 4)

\* The text between the matches: before the first (k = 0), after the k-th.
Gap(k) ==
    LET lo == IF k = 0 THEN 1 ELSE rd_matches[k].end
        hi == IF k = Len(rd_matches) THEN Len(rd_text)
              ELSE rd_matches[k + 1].start - 1
    IN  Slice(rd_text, lo, hi)

\* The text without its fence delimiters (opening lines, the line breaks
\* before closing backticks, closing backticks) and without blank prose.
Recovered ==
    Flatten([n \in 1..(2 * Len(rd_matches) + 1) |->
                IF n % 2 = 1
                THEN (IF Blank(Gap((n - 1) \div 2)) THEN <<>>
                      ELSE Gap((n - 1) \div 2))
                ELSE rstrip_newlines(BodyRegion(n \div 2))])

\* C25: the segments, concatenated in the order returned, are the text
\* without its fence delimiters and without whitespace-only prose: no
\* character of a code body, blank lines right after the opening fence line
\* included, and none of non-blank prose is lost or moved.
C25_NothingLost ==
    Splitted =>
        Flatten([k \in 1..Len(rd_blocks) |-> BlockText(rd_blocks[k])]) = Recovered

\* C26 as stated: every recognised fence has its opening backticks at the
\* start of a line, followed only by an optional tag of word characters and
\* a line break; backticks in the middle of a line open no Code segment.
C26_FenceOnlyAtLineStart ==
    Splitted =>
        \A k \in 1..Len(rd_matches) :
            LET m == rd_matches[k]
            IN  /\ m.start = 1 \/ rd_text[m.start - 1] = NL
                /\ rd_text[m.start + 3 + Len(m.language)] = NL

\* C26 (amended): a fence is recognised wherever a triple backtick is
\* followed by an optional tag of word characters, optional whitespace
\* (spaces and blank lines) and a line break, with a triple backtick
\* somewhere after it, at the start of a line or in the middle of one: the
\* Code segments are the fences that open so, leftmost first, none inside
\* another, and the tag is the run of word characters after the backticks.
C26_FenceAnywhere ==
    Splitted =>
        /\ Len(Codes) = Len(rd_matches)
        /\ \A k \in 1..Len(rd_matches) :
              /\ FenceOpensAt(rd_text, rd_matches[k].start)
              /\ Codes[k].language = rd_matches[k].language
              /\ rd_matches[k].language =
                    Slice(rd_text, rd_matches[k].start + 3,
                          RunEnd(rd_text, rd_matches[k].start + 3, WordChars) - 1)
              /\ k > 1 => rd_matches[k].start >= rd_matches[k - 1].end
        /\ \A i \in 1..Len(rd_text) :
              FenceOpensAt(rd_text, i) =>
                  \E k \in 1..Len(rd_matches) :
                      rd_matches[k].start <= i /\ i < rd_matches[k].end

\* A fence opened in the middle of a line, after a tag and a space.
C26_Witness ==
    /\ Splitted
    /\ rd_text = <<"a">> \o Fence \o <<"a", " ", NL>> \o Fence
    /\ rd_blocks = <<TextBlock(<<"a">>), CodeBlock(<<"a">>, <<>>)>>

\* A line that begins with '#'s followed by whitespace, and what follows
\* that whitespace.
IsHeadingLine(line) ==
    \E h \in 1..(Len(line) - 1) :
        /\ \A k \in 1..h : line[k] = "#"
        /\ line[h + 1] = " "
HeadingRest(line) ==
    LET h == CHOOSE h \in 1..(Len(line) - 1) :
                 (\A k \in 1..h : line[k] = "#") /\ line[h + 1] = " "
        from == MinOf({k \in (h + 1)..(Len(line) + 1) :
                          k = Len(line) + 1 \/ line[k] # " "})
    IN  Slice(line, from, Len(line))

\* The lines of the text handed to normalize_markdown (a final line break
\* ends the last line) and the lines of its result.
InLines == splitlines(rd_text)
OutLines == IF InLines = <<>> THEN <<>> ELSE split(rd_norm)

\* C27: heading normalization rewrites every line that begins with one or
\* more '#' followed by whitespace to the rest of the line between two
\* pairs of asterisks and leaves every other line as it is, character for
\* character, a line whose '#' is not followed by whitespace included.
C27_HeadingsBecomeBold ==
    rd_pc = "normalized" =>
        /\ Len(OutLines) = Len(InLines)
        /\ InLines = <<>> => rd_norm = <<>>
        /\ \A k \in 1..Len(InLines) :
              OutLines[k] =
                  IF IsHeadingLine(InLines[k])
                  THEN <<"*", "*">> \o HeadingRest(InLines[k]) \o <<"*", "*">>
                  ELSE InLines[k]

\* "# Title" over "body".
C27_Witness ==
    /\ rd_pc = "normalized"
    /\ rd_text = <<"#", " ", "a", NL, "a">>
    /\ rd_norm = <<"*", "*", "a", "*", "*", NL, "a">>


\* ------------------------------------------- further claims on the pager
\* The number of pieces of a naive split on the line break.
NaiveLineCount(content) ==
    Cardinality({k \in 1..Len(content) : content[k] = NL}) + 1

C40_SomethingVisible ==
    (Paged1 /\ pg_height >= 1) =>
        LET first == pg_first.scroll_offset + 1
            past == Min(pg_first.scroll_offset + pg_height, pg_first.total_lines)
        IN  /\ pg_first.total_lines >= 1
            /\ pg_first.scroll_offset < pg_first.total_lines
            /\ first <= past /\ past - first + 1 <= pg_height
            /\ pg_first.visible_content =
                  join(SubSeq(split(pg_content), first, past))
            /\ NaiveLineCount(pg_first.visible_content) = past - first + 1

\* An offset far past the end of a one-line text: the line is shown.
C40_Witness ==
    /\ pg_pc = "paged"
    /\ pg_content = <<"a">>
    /\ pg_height = 1
    /\ pg_offset = MaxOffset
    /\ pg_first = [visible_content |-> <<"a">>, total_lines |-> 1,
                   scroll_offset |-> 0]

\* ----------------------------------------- further claims on the browser
\* C34: a key with no branch (a character no handler knows, a lone ESC)
\* changes nothing: view, selectedIndex and scrollOffset are as before, no
\* resume/fork request is issued and the loop goes on; a loop that was
\* entered ends only on 'q', 'r' or 'f'.
C34_UnknownKeyIgnored ==
    /\ Handled({"x", ESC}) =>
          /\ pc = "draw" => SameLocals
          /\ view_mode = last.view_mode /\ SameSelection
          /\ requests = <<>>
          /\ proc = "none"
          /\ InLoop
    /\ (view_mode # None /\ has_termios /\ pc \in {"done", "subprocess"}) =>
          Handled(ExitKeys)

\* A lone ESC dispatched in the Detail view.
C34_Witness ==
    /\ pc = "draw" /\ Handled({ESC})
    /\ last.view_mode = "detail"
    /\ view_mode = "detail"
    /\ requests = <<>>

\* C35: ESC followed by a byte other than '[' is reported as a lone ESC
\* for the escape byte only: the byte after it is not taken from the input,
\* so that the next get_key delivers it.
C35_EscapeKeepsNextByte ==
    (pc = "dispatch" /\ key = ESC /\ Len(consumed) >= 2) => consumed[2] = "["

\* C36: in Tules-sessions scrollOffset is 0 whenever the view is List,
\* whatever keys led there, so that every entry into Detail or Logs from
\* List starts at scrollOffset 0.
C36_ListScrollIsZero ==
    Tules =>
        /\ (InLoop /\ view_mode = "list") => scroll_offset = 0
        /\ (pc \in {"drawn", "get_key", "dispatch"} /\ screen.view = "list") =>
              (scroll_offset = 0 /\ screen.scroll_offset = 0)
        /\ (pc = "draw" /\ last.view_mode = "list"
              /\ view_mode \in {"detail", "logs"}) => scroll_offset = 0

\* Enter pressed in a scrolled Detail view: the List view is drawn at 0.
C36_Witness ==
    /\ Tules /\ pc = "drawn" /\ screen.view = "list"
    /\ Handled({"\r"})
    /\ last.view_mode = "detail"
    /\ last.scroll_offset > 0
    /\ scroll_offset = 0

\* C37: the terminal is raw only while get_key reads one key: at every
\* redraw, at dispatch and while the external process runs it is in the
\* mode that was saved before the read, and nothing is left saved.
C37_RawOnlyWhileReading ==
    /\ tty_mode = "raw" => pc = "get_key"
    /\ pc = "get_key" => (tty_mode = "raw" /\ old_settings = "cooked")
    /\ pc \in {"draw", "drawn", "dispatch", "subprocess"} =>
          (tty_mode = "cooked" /\ old_settings = None)

\* The external process runs after a key was read.
C37_Witness ==
    /\ pc = "subprocess" /\ proc = "running"
    /\ consumed = <<"r">>
    /\ tty_mode = "cooked"

\* C38: with an empty session list the browser prints its notice and
\* returns without entering the loop: nothing is drawn, no key is read, no
\* session is selected and no resume/fork request is issued.
C38_EmptyListReturns ==
    Len(sessions) = 0 =>
        /\ pc \in {"start", "done"}
        /\ pc = "done" => printed = {"no_sessions"}
        /\ view_mode = None /\ selected_idx = Unset
        /\ screen = NoScreen
        /\ consumed = <<>> /\ key = None /\ tty_mode = "cooked"
        /\ requests = <<>> /\ proc = "none"

\* The notice has been printed.
C38_Witness ==
    /\ Len(sessions) = 0
    /\ pc = "done"
    /\ "no_sessions" \in printed


\* --------------------------------------- further claims on the renderer
\* The first line of the region is whitespace only and ends in a line break.
LeadingBlankLine(region) ==
    \E e \in 1..Len(region) :
        region[e] = NL /\ \A k \in 1..(e - 1) : region[k] \in SpaceChars
Breaks(n) == [k \in 1..n |-> NL]

\* C32 as stated: the body of a Code segment is the text between the
\* fence's opening line and its closing backticks with exactly one trailing
\* line break removed, so that a body ending in two or more line breaks
\* keeps all but the last (bodies that begin with a whitespace-only line
\* left aside).
C32_OneTrailingBreakRemoved ==
    Splitted =>
        /\ Len(Codes) = Len(rd_matches)
        /\ \A k \in 1..Len(rd_matches) :
              ~LeadingBlankLine(BodyRegion(k)) =>
                  Codes[k].code =
                      (IF BodyRegion(k) # <<>>
                          /\ BodyRegion(k)[Len(BodyRegion(k))] = NL
                       THEN SubSeq(BodyRegion(k), 1, Len(BodyRegion(k)) - 1)
                       ELSE BodyRegion(k))

\* C32 (amended): the body of a Code segment is the text between the
\* fence's opening delimiter and its closing backticks with every trailing
\* line break removed: it never ends in a line break, and a body that ends
\* in two or more line breaks loses them all.  (The text between the opening
\* line and the closing backticks ends with the body and the removed line
\* breaks, and is exactly that unless it begins with a whitespace-only
\* line, which the opening delimiter takes in.)
C32_AllTrailingBreaksRemoved ==
    Splitted =>
        /\ Len(Codes) = Len(rd_matches)
        /\ \A k \in 1..Len(rd_matches) :
              LET region == BodyRegion(k)
                  code == Codes[k].code
              IN  /\ code = <<>> \/ code[Len(code)] # NL
                  /\ \E n \in 0..Len(region) :
                        /\ EndsWith(region, code \o Breaks(n))
                        /\ ~LeadingBlankLine(region) => region = code \o Breaks(n)

\* A body that ends in two line breaks.
C32_Witness ==
    /\ Splitted
    /\ rd_text = Fence \o <<NL, "a", NL, NL>> \o Fence
    /\ rd_blocks = <<CodeBlock(<<>>, <<"a">>)>>

\* C39: split never returns two Prose segments next to each other: between
\* any two Prose segments of the result there is a Code segment.
C39_NoAdjacentProse ==
    Splitted =>
        \A k \in 1..(Len(rd_blocks) - 1) :
            ~(rd_blocks[k].kind = "TextBlock" /\ rd_blocks[k + 1].kind = "TextBlock")

\* Prose on both sides of an empty fence.
C39_Witness ==
    /\ Splitted
    /\ rd_text = <<"a">> \o Fence \o <<NL>> \o Fence \o <<"a">>
    /\ rd_blocks = <<TextBlock(<<"a">>), CodeBlock(<<>>, <<>>), TextBlock(<<"a">>)>>

\* Where the output of the k-th segment starts: a Prose segment takes two
\* calls (the markdown, the blank line), a Code segment one.
UnitStart(k) ==
    1 + 2 * Cardinality({j \in 1..(k - 1) : rd_blocks[j].kind = "TextBlock"})
      + Cardinality({j \in 1..(k - 1) : rd_blocks[j].kind = "CodeBlock"})

\* C33: render prints the segments in their order, one unit each: a Prose
\* segment as its heading-normalized markdown followed by exactly one blank
\* line, a Code segment as one titled panel whose language is the
\* segment's, or "text" when the segment has none.
C33_RenderInOrder ==
    rd_pc = "rendered" =>
        /\ Len(rd_out) = UnitStart(Len(rd_blocks) + 1) - 1
        /\ \A k \in 1..Len(rd_blocks) :
              LET b == rd_blocks[k]
                  at == UnitStart(k)
              IN  IF b.kind = "TextBlock"
                  THEN /\ rd_out[at] = [print |-> "Markdown",
                                        text |-> normalize_markdown(b.markdown)]
                       /\ rd_out[at + 1] = [print |-> "blank line"]
                  ELSE /\ rd_out[at].print = "Panel"
                       /\ rd_out[at].code = b.code
                       /\ rd_out[at].lexer =
                             (IF b.language = <<>> THEN <<"t", "e", "x", "t">>
                              ELSE b.language)
                       /\ rd_out[at].title = rd_out[at].lexer

\* A heading, a fence without a tag, a fence with one.
C33_Witness ==
    /\ rd_pc = "rendered"
    /\ rd_text = RenderExample
    /\ rd_out = <<[print |-> "Markdown", text |-> <<"*", "*", "a", "*", "*">>],
                  [print |-> "blank line"],
                  [print |-> "Panel", title |-> <<"t", "e", "x", "t">>,
                   lexer |-> <<"t", "e", "x", "t">>, code |-> <<>>],
                  [print |-> "Panel", title |-> <<"a">>, lexer |-> <<"a">>,
                   code |-> <<"a">>]>>

====
